---- MODULE Spec2Model ----
(***************************************************************************)
(* A model of the todo application: the todo API routes (app/api/todos),   *)
(* the User model with its password hook, and the authentication routes   *)
(* and token helpers listed in TODO_APP_GUIDE.md.                          *)
(*                                                                         *)
(* Strings whose content matters (emails, names, passwords, titles) are    *)
(* sequences of one-character strings, so that trimming, lower-casing,     *)
(* length checks and pattern matching are computed, not assumed.           *)
(***************************************************************************)
EXTENDS Integers, Sequences, FiniteSets, TLC

VARIABLES
    now,        \* the server clock, in seconds
    todos,      \* the Todo collection: _id -> document
    nextId,     \* the next Todo _id the store assigns
    createdBy,  \* history: _id -> the user whose verified token came with the create
    req,        \* the last request served by a todo route
    resp,       \* the response to it
    users,      \* the User collection: _id -> document
    nextUserId, \* the next User _id the store assigns
    plain,      \* history: _id -> the plaintext password last saved for the user
    pc,         \* signup request -> "idle" | "create" | "done"
    sreq,       \* signup request -> its body
    sresp,      \* signup request -> its response
    areq,       \* the last login / me / model-level request
    aresp,      \* the response to it
    client,     \* the browser: its localStorage token, the tokens it dropped
                \* at logout, and the request it sent last
    jwt,        \* the token helpers used directly: what was issued, what was
                \* presented for verification, and the outcome
    db,         \* dbConnect: the cached connection and promise, the connection
                \* attempts, the callers and the microtask queue
    home        \* the Home component: its React state and its requests in flight

vars == <<now, todos, nextId, createdBy, req, resp, users, nextUserId, plain,
          pc, sreq, sresp, areq, aresp, client, jwt, db, home>>

todoVars == <<todos, nextId, createdBy, req, resp>>
userVars == <<users, nextUserId, plain, pc, sreq, sresp, areq, aresp, client, jwt>>
authVars == <<userVars, db, home>>

-----------------------------------------------------------------------------
(* Bounds                                                                  *)

MaxTodos == 2
MaxUsers == 2
MaxTicks == 3
MaxCallers == 3
MaxAttempts == 2
MaxRequests == 3

-----------------------------------------------------------------------------
(* Strings                                                                 *)

Str(c, n) == [i \in 1..n |-> c]

IsSpace(c) == c = " "

LowerChar(c) ==
    CASE c = "A" -> "a"
      [] c = "B" -> "b"
      [] c = "J" -> "j"
      [] c = "X" -> "x"
      [] OTHER -> c

\* String.prototype.toLowerCase
toLowerCase(s) == [i \in 1..Len(s) |-> LowerChar(s[i])]

RECURSIVE trimStart(_)
trimStart(s) ==
    IF s # <<>> /\ IsSpace(Head(s)) THEN trimStart(Tail(s)) ELSE s

RECURSIVE trimEnd(_)
trimEnd(s) ==
    IF s # <<>> /\ IsSpace(s[Len(s)]) THEN trimEnd(SubSeq(s, 1, Len(s) - 1)) ELSE s

\* String.prototype.trim, the schema option trim: true
trim(s) == trimEnd(trimStart(s))

-----------------------------------------------------------------------------
(* Token helpers (lib/auth.ts as listed in the guide)                      *)

\* expiresIn: '7d', in seconds
ExpiresIn == 604800

\* the clock advances in steps of half a validity window
TickStep == ExpiresIn \div 2

JWT_SECRET == "secret"

\* getUserIdFromHeader's null
NullId == 0

\* the HMAC of a payload under a key, as a term
Signature(payload, key) == [key |-> key, of |-> payload]

\* jwt.sign(payload, key, {expiresIn}) at time t: header, claims, signature
jwtSign(payload, key, t) ==
    LET claims == [userId |-> payload.userId, email |-> payload.email,
                   iat |-> t, exp |-> t + ExpiresIn]
    IN  <<"HS256", claims, Signature(claims, key)>>

\* jwtVerifies with the expiry comparison turned around
jwtVerifies_ExpiryInverted(token, key, t) ==
    /\ Len(token) = 3
    /\ token[3] = Signature(token[2], key)
    /\ t >= token[2].exp

\* jwt.verify(token, key) at time t does not throw
jwtVerifies(token, key, t) ==
    /\ Len(token) = 3
    /\ token[3] = Signature(token[2], key)
    /\ t < token[2].exp

\* verifyToken that reads the claims without checking them (jwt.decode)
verifyToken_DecodeOnly(token, t) ==
    IF Len(token) >= 2 THEN <<token[2]>> ELSE <<>>

generateToken(userId, email, t) ==
    jwtSign([userId |-> userId, email |-> email], JWT_SECRET, t)

\* the payload in a one-element sequence, or <<>> for null
verifyToken(token, t) ==
    IF jwtVerifies(token, JWT_SECRET, t) THEN <<token[2]>> ELSE <<>>

\* authHeader is the header split at ' ' (<<>> for no header);
\* the token in a one-element sequence, or <<>> for null
extractTokenFromHeader(authHeader) ==
    IF authHeader = <<>> THEN <<>>
    ELSE IF Len(authHeader) # 2 \/ authHeader[1] # "Bearer" THEN <<>>
    ELSE <<authHeader[2]>>

getUserIdFromHeader(authHeader, t) ==
    LET token == extractTokenFromHeader(authHeader)
    IN  IF token = <<>> THEN NullId
        ELSE LET payload == verifyToken(token[1], t)
             IN  IF payload = <<>> THEN NullId ELSE payload[1].userId

-----------------------------------------------------------------------------
(* The Todo model (models/Todo.ts)                                         *)

\* the paths of TodoSchema; strict mode drops every other field
TodoPaths == {"title", "description", "dueDate", "status"}

\* the paths that timestamps: true adds to the schema
TimestampPaths == {"createdAt", "updatedAt"}

TodoStatusEnum == {"incomplete", "complete"}

TitleMaxLength == 100

\* the length the schema names for description, under the option maxilength
DescriptionMaxLength == 500

Has(body, f) == f \in DOMAIN body

\* strict schema, then the setters (trim) of the string paths
TodoCast(body) ==
    [f \in DOMAIN body \cap (TodoPaths \cup TimestampPaths) |->
        IF f \in {"title", "description"} THEN trim(body[f]) ELSE body[f]]

\* TodoPathsValid without the enum of status
TodoPathsValid_NoEnum(c) ==
    /\ Has(c, "title") => (c.title # <<>> /\ Len(c.title) <= TitleMaxLength)
    /\ Has(c, "description") => c.description # <<>>

\* the validators of the paths present in a cast body;
\* description's length option is spelled maxilength and is no validator
TodoPathsValid(c) ==
    /\ Has(c, "title") => (c.title # <<>> /\ Len(c.title) <= TitleMaxLength)
    /\ Has(c, "description") => c.description # <<>>
    /\ Has(c, "status") => c.status \in TodoStatusEnum

\* document validation on save: required paths and the validators
TodoValid(c) ==
    /\ Has(c, "title") /\ Has(c, "description") /\ Has(c, "dueDate")
    /\ TodoPathsValid(c)

\* TodoDoc without the default of status
TodoDoc_NoDefault(id, c, t) ==
    [_id |-> id, title |-> c.title, description |-> c.description,
     dueDate |-> c.dueDate,
     status |-> IF Has(c, "status") THEN c.status ELSE "",
     createdAt |-> IF Has(c, "createdAt") THEN c.createdAt ELSE t,
     updatedAt |-> IF Has(c, "createdAt") THEN c.createdAt ELSE t]

\* the document Todo.create stores: the default of status, and the
\* timestamps, where a new document keeps a createdAt it was given and
\* gets the same value as updatedAt
TodoDoc(id, c, t) ==
    [_id |-> id, title |-> c.title, description |-> c.description,
     dueDate |-> c.dueDate,
     status |-> IF Has(c, "status") THEN c.status ELSE "incomplete",
     createdAt |-> IF Has(c, "createdAt") THEN c.createdAt ELSE t,
     updatedAt |-> IF Has(c, "createdAt") THEN c.createdAt ELSE t]

\* TodoUpdated as a replacement of the document: paths the update does not
\* name fall back to their defaults
TodoUpdated_Overwrite(doc, c, t) ==
    [f \in DOMAIN doc |->
        IF f \in DOMAIN c \ TimestampPaths THEN c[f]
        ELSE IF f = "updatedAt" THEN t
        ELSE IF f = "status" THEN "incomplete"
        ELSE doc[f]]

\* $set of the cast update: createdAt is immutable and is taken out of the
\* update, updatedAt is set to the time of the update
TodoUpdated(doc, c, t) ==
    [f \in DOMAIN doc |->
        IF f \in DOMAIN c \ TimestampPaths THEN c[f]
        ELSE IF f = "updatedAt" THEN t
        ELSE doc[f]]

\* IsSortedDesc on the time of the last change
IsSortedDesc_ByUpdatedAt(s) ==
    \A i, j \in 1..Len(s) : i < j => s[i].updatedAt >= s[j].updatedAt

IsSortedDesc(s) ==
    \A i, j \in 1..Len(s) : i < j => s[i].createdAt >= s[j].createdAt

\* the orders .sort({createdAt: -1}) may return the documents of ids in
SortedByCreatedAtDesc(ids) ==
    {s \in [1..Cardinality(ids) -> {todos[i] : i \in ids}] :
        /\ \A i \in ids : \E k \in 1..Cardinality(ids) : s[k] = todos[i]
        /\ IsSortedDesc(s)}

-----------------------------------------------------------------------------
(* The User model (models/User.ts)                                         *)

FullNameMinLength == 3
FullNameMaxLength == 50
PasswordMinLength == 6

\* bcrypt reads at most this many bytes of a password
BcryptMaxBytes == 72

\* the salts bcrypt.genSalt(10) may return
Salts == {"salt1", "salt2"}

Min(a, b) == IF a < b THEN a ELSE b

\* the part of a password bcrypt reads
bcryptKey(s) == SubSeq(s, 1, Min(Len(s), BcryptMaxBytes))

\* bcrypt.hash(s, salt): version and cost, the salt, and the digest of the key
\* under the salt; the digest is written as the key it was computed from and
\* stands for a value from which the key cannot be read back
bcryptHash(s, salt) == <<"$2a$10$", salt>> \o bcryptKey(s)

IsBcryptHash(h) == Len(h) >= 2 /\ h[1] = "$2a$10$"

\* bcrypt.compare(s, hash): hash s with the salt in hash and compare
bcryptCompare(s, hash) == IsBcryptHash(hash) /\ bcryptHash(s, hash[2]) = hash

\* /^[^\s@]+@[^\s@]+\.[^\s@]+$/
EmailPart(s, a, b) ==
    a <= b /\ \A k \in a..b : ~IsSpace(s[k]) /\ s[k] # "@"

EmailMatches(s) ==
    \E i, j \in 1..Len(s) :
        /\ i < j
        /\ s[i] = "@"
        /\ s[j] = "."
        /\ EmailPart(s, 1, i - 1)
        /\ EmailPart(s, i + 1, j - 1)
        /\ EmailPart(s, j + 1, Len(s))

\* the setters of UserSchema: fullName is trimmed, email is lower-cased
UserCast(fields) ==
    [fullName |-> trim(fields.fullName),
     email |-> toLowerCase(fields.email),
     password |-> fields.password]

\* the validators of UserSchema, run on the cast fields before the save hook
UserValid(c) ==
    /\ c.fullName # <<>>
    /\ Len(c.fullName) >= FullNameMinLength
    /\ Len(c.fullName) <= FullNameMaxLength
    /\ c.email # <<>>
    /\ EmailMatches(c.email)
    /\ c.password # <<>>
    /\ Len(c.password) >= PasswordMinLength

\* preSave without the isModified guard
preSave_AlwaysHash(password, isModified, salt) == bcryptHash(password, salt)

\* UserSchema.pre('save'): the password to store
preSave(password, isModified, salt) ==
    IF ~isModified THEN password ELSE bcryptHash(password, salt)

\* UserSchema.methods.comparePassword
comparePassword(user, candidatePassword) ==
    bcryptCompare(candidatePassword, user.password)

\* UniqueEmailFree when the index is missing
UniqueEmailFree_NoIndex(email) == TRUE

\* the unique index on email admits a document with this email
UniqueEmailFree(email) ==
    \A u \in DOMAIN users : users[u].email # email

\* User.findOne({email})
FindUserByEmail(email) ==
    {u \in DOMAIN users : users[u].email = email}

UserDoc(id, c, salt, t) ==
    [_id |-> id, fullName |-> c.fullName, email |-> c.email,
     password |-> preSave(c.password, TRUE, salt),
     createdAt |-> t, updatedAt |-> t]

\* User.create(fields): "ok", "invalid" (ValidationError) or
\* "duplicate" (E11000 from the unique index)
UserCreateOutcome(fields) ==
    IF ~UserValid(UserCast(fields)) THEN "invalid"
    ELSE IF ~UniqueEmailFree(UserCast(fields).email) THEN "duplicate"
    ELSE "ok"

-----------------------------------------------------------------------------
(* The shapes of the authentication routes' requests and responses        *)

AuthResponse(status, success, error, message, token, user) ==
    [status |-> status, success |-> success, error |-> error,
     message |-> message, token |-> token, user |-> user]

NoResponse == AuthResponse(0, FALSE, "", "", <<>>, <<>>)

AuthRequest(op, email, password, header) ==
    [op |-> op, email |-> email, password |-> password, header |-> header]

NoAuthRequest == AuthRequest("none", <<>>, <<>>, <<>>)

\* the request the browser sent last: the route, the Authorization header,
\* the time of sending, and whether the browser had dropped the token before
Sent(op, header, at, afterLogout) ==
    [op |-> op, header |-> header, at |-> at, afterLogout |-> afterLogout]

\* nothing issued and nothing verified yet
NoJwt ==
    [userId |-> NullId, email |-> <<>>, issued |-> <<>>, issuedAt |-> 0,
     presented |-> <<>>, at |-> 0, verified |-> <<>>]

\* a browser with an empty localStorage that has sent nothing
NoClient ==
    [authToken |-> <<>>, captured |-> {}, sent |-> Sent("none", <<>>, 0, FALSE)]

\* the concurrent callers of dbConnect
DbCallers == 1..MaxCallers

\* global.mongoose = { conn: null, promise: null }, nothing attempted, no caller
\* inside dbConnect and an empty microtask queue; 0 stands for null
NoDb ==
    [conn |-> 0, promise |-> 0, settled |-> <<>>,
     waiting |-> [c \in DbCallers |-> 0],
     outcome |-> [c \in DbCallers |-> "idle"],
     returned |-> {}, order |-> <<>>, queue |-> <<>>]

\* Home after its first render: useState's initial values, nothing requested
\* (mounted: the effect has not run yet); <<>> stands for null; latest is the
\* response to the fetchTodos request made last, click the last click on
\* Cancel, on the form's submit or on Delete
NoHome ==
    [mounted |-> FALSE, todos |-> <<>>, loading |-> TRUE, editingTodo |-> <<>>,
     filter |-> "all", inflight |-> {}, sent |-> 0, latest |-> <<>>,
     click |-> [what |-> "none", id |-> 0, confirmed |-> FALSE, flip |-> FALSE]]

-----------------------------------------------------------------------------
(* The todo routes (app/api/todos/route.ts and app/api/todos/[id]/route.ts) *)

\* the two clients of the todo routes: user ids 1 and 2
Clients == {1, 2}

\* the address a client signed up with
ClientEmail(u) == <<IF u = 1 THEN "a" ELSE "b", "@", "x", ".", "c">>

\* the token a client holds: issued half a validity window before the
\* todo routes are observed, at time ExpiresIn
ClientToken(u) == generateToken(u, ClientEmail(u), TickStep)

\* a token of user 1 issued a whole validity window before
ExpiredToken == generateToken(1, ClientEmail(1), 0)

\* a token for user 1 signed with another key
ForgedToken ==
    jwtSign([userId |-> 1, email |-> ClientEmail(1)], "guess", TickStep)

\* the Authorization headers a request may carry
HeaderInputs ==
    {<<"Bearer", ClientToken(u)>> : u \in Clients}
        \cup {<<>>, <<"Token", ClientToken(1)>>, <<"Bearer", ForgedToken>>,
              <<"Bearer", <<"garbage">>>>, <<"Bearer", ExpiredToken>>}

NoBody == <<>>

\* a complete body that also carries a status and an owner field,
\* and a body without the required title
CreateBodies ==
    {[title |-> <<" ", "a">>, description |-> <<"d">>, dueDate |-> 1,
      status |-> "complete", userId |-> 2],
     [description |-> <<"d">>, dueDate |-> 1]}

\* partial bodies: a status, a status with an owner field, a status outside the enum
UpdateBodies ==
    {[status |-> "complete"], [status |-> "incomplete", userId |-> 1],
     [status |-> "completed"]}

IdInputs == 1..MaxTodos

\* an id that is no ObjectId (not 24 hex digits)
MalformedId == -1

\* IsObjectId that takes every string for an id
IsObjectId_Any(id) == TRUE

\* the cast of the id parameter to ObjectId succeeds
IsObjectId(id) == id >= 1

Response(status, success, error, data) ==
    [status |-> status, success |-> success, error |-> error, data |-> data]

Request(op, q, h, id, body) ==
    [op |-> op, q |-> q, requester |-> getUserIdFromHeader(h, now),
     id |-> id, body |-> body]

\* GET /api/todos
ListTodos(h, q, dbOk) ==
    /\ req' = Request("list", q, h, 0, NoBody)
    /\ IF ~dbOk
       THEN resp' = Response(500, FALSE, "connect failed", <<>>)
       ELSE \E data \in SortedByCreatedAtDesc(DOMAIN todos) :
                resp' = Response(200, TRUE, "", data)
    /\ UNCHANGED <<todos, nextId, createdBy>>

\* POST /api/todos
CreateTodo(h, body, dbOk) ==
    /\ req' = Request("create", "", h, 0, body)
    /\ LET c == TodoCast(body)
       IN  IF ~dbOk
           THEN /\ resp' = Response(400, FALSE, "connect failed", <<>>)
                /\ UNCHANGED <<todos, nextId, createdBy>>
           ELSE IF ~TodoValid(c)
           THEN /\ resp' = Response(400, FALSE, "Todo validation failed", <<>>)
                /\ UNCHANGED <<todos, nextId, createdBy>>
           ELSE /\ nextId <= MaxTodos
                /\ todos' = todos @@ (nextId :> TodoDoc(nextId, c, now))
                /\ createdBy' = createdBy @@ (nextId :> getUserIdFromHeader(h, now))
                /\ nextId' = nextId + 1
                /\ resp' = Response(201, TRUE, "", <<TodoDoc(nextId, c, now)>>)

\* GET /api/todos/[id]
GetTodo(h, id, dbOk) ==
    /\ req' = Request("get", "", h, id, NoBody)
    /\ resp' = IF ~dbOk THEN Response(400, FALSE, "connect failed", <<>>)
               ELSE IF ~IsObjectId(id)
               THEN Response(400, FALSE, "Cast to ObjectId failed", <<>>)
               ELSE IF id \notin DOMAIN todos
               THEN Response(404, FALSE, "Todo not found", <<>>)
               ELSE Response(200, TRUE, "", <<todos[id]>>)
    /\ UNCHANGED <<todos, nextId, createdBy>>

\* PUT /api/todos/[id]
PutTodo(h, id, body, dbOk) ==
    /\ req' = Request("put", "", h, id, body)
    /\ LET c == TodoCast(body)
       IN  IF ~dbOk
           THEN /\ resp' = Response(400, FALSE, "connect failed", <<>>)
                /\ UNCHANGED todos
           ELSE IF ~IsObjectId(id)
           THEN /\ resp' = Response(400, FALSE, "Cast to ObjectId failed", <<>>)
                /\ UNCHANGED todos
           ELSE IF ~TodoPathsValid(c)
           THEN /\ resp' = Response(400, FALSE, "Validation failed", <<>>)
                /\ UNCHANGED todos
           ELSE IF id \notin DOMAIN todos
           THEN /\ resp' = Response(404, FALSE, "Todo not found", <<>>)
                /\ UNCHANGED todos
           ELSE /\ todos' = [todos EXCEPT ![id] = TodoUpdated(todos[id], c, now)]
                /\ resp' = Response(200, TRUE, "", <<TodoUpdated(todos[id], c, now)>>)
    /\ UNCHANGED <<nextId, createdBy>>

\* DeleteTodo that answers as a delete but leaves the document in the store
DeleteTodo_KeepsDocument(h, id, dbOk) ==
    /\ req' = Request("delete", "", h, id, NoBody)
    /\ resp' = IF ~dbOk THEN Response(400, FALSE, "connect failed", <<>>)
               ELSE IF ~IsObjectId(id)
               THEN Response(400, FALSE, "Cast to ObjectId failed", <<>>)
               ELSE IF id \notin DOMAIN todos
               THEN Response(404, FALSE, "Todo not found", <<>>)
               ELSE Response(200, TRUE, "", <<>>)
    /\ UNCHANGED <<todos, nextId, createdBy>>

\* DELETE /api/todos/[id]
DeleteTodo(h, id, dbOk) ==
    /\ req' = Request("delete", "", h, id, NoBody)
    /\ IF ~dbOk
       THEN /\ resp' = Response(400, FALSE, "connect failed", <<>>)
            /\ UNCHANGED todos
       ELSE IF ~IsObjectId(id)
       THEN /\ resp' = Response(400, FALSE, "Cast to ObjectId failed", <<>>)
            /\ UNCHANGED todos
       ELSE IF id \notin DOMAIN todos
       THEN /\ resp' = Response(404, FALSE, "Todo not found", <<>>)
            /\ UNCHANGED todos
       ELSE /\ todos' = [i \in DOMAIN todos \ {id} |-> todos[i]]
            /\ resp' = Response(200, TRUE, "", <<>>)
    /\ UNCHANGED <<nextId, createdBy>>

\* time passes
Tick ==
    /\ now + TickStep <= MaxTicks * TickStep
    /\ now' = now + TickStep

NoRequest == [op |-> "none", q |-> "", requester |-> NullId, id |-> 0, body |-> NoBody]

TodosList == \E h \in HeaderInputs :
    ListTodos(h, "all", TRUE) /\ UNCHANGED <<now>> /\ UNCHANGED authVars
TodosCreate == \E h \in HeaderInputs, b \in CreateBodies :
    CreateTodo(h, b, TRUE) /\ UNCHANGED <<now>> /\ UNCHANGED authVars
TodosGet == \E h \in HeaderInputs, id \in IdInputs :
    GetTodo(h, id, TRUE) /\ UNCHANGED <<now>> /\ UNCHANGED authVars
TodosPut == \E h \in HeaderInputs, id \in IdInputs, b \in UpdateBodies :
    PutTodo(h, id, b, TRUE) /\ UNCHANGED <<now>> /\ UNCHANGED authVars
TodosDelete == \E h \in HeaderInputs, id \in IdInputs :
    DeleteTodo(h, id, TRUE) /\ UNCHANGED <<now>> /\ UNCHANGED authVars

NextTodos ==
    \/ TodosList
    \/ TodosCreate
    \/ TodosGet
    \/ TodosPut
    \/ TodosDelete

\* the todo routes, observed from time ExpiresIn on an empty collection
InitTodos ==
    /\ now = ExpiresIn
    /\ todos = <<>>
    /\ nextId = 1
    /\ createdBy = <<>>
    /\ req = NoRequest
    /\ resp = Response(0, FALSE, "", <<>>)
    /\ users = <<>>
    /\ nextUserId = 1
    /\ plain = <<>>
    /\ pc = <<>>
    /\ sreq = <<>>
    /\ sresp = <<>>
    /\ areq = NoAuthRequest
    /\ aresp = NoResponse
    /\ client = NoClient
    /\ jwt = NoJwt
    /\ db = NoDb
    /\ home = NoHome

SpecTodos == InitTodos /\ [][NextTodos]_vars

-----------------------------------------------------------------------------
(* The authentication routes (app/api/auth/*/route.ts as listed in the guide) *)

\* PublicUser that hands out the document as it was loaded
PublicUser_WholeDocument(user) == user

\* the user object of a response: no password
PublicUser(user) ==
    [_id |-> user._id, fullName |-> user.fullName, email |-> user.email]

\* SignupValidation without the comparison of the two passwords
SignupValidation_NoConfirmCheck(body) ==
    IF body.fullName = <<>> \/ body.email = <<>> \/ body.password = <<>>
        \/ body.confirmPassword = <<>>
    THEN "All fields are required"
    ELSE IF Len(body.password) < PasswordMinLength
    THEN "Password must be at least 6 characters"
    ELSE ""

\* the validation of the signup body: the error, or "" when it passes
SignupValidation(body) ==
    IF body.fullName = <<>> \/ body.email = <<>> \/ body.password = <<>>
        \/ body.confirmPassword = <<>>
    THEN "All fields are required"
    ELSE IF Len(body.password) < PasswordMinLength
    THEN "Password must be at least 6 characters"
    ELSE IF body.password # body.confirmPassword
    THEN "Passwords do not match"
    ELSE ""

\* what the signup route passes to User.create
SignupFields(body) ==
    [fullName |-> body.fullName, email |-> toLowerCase(body.email),
     password |-> body.password]

\* POST /api/auth/signup up to the answer of User.findOne
SignupBegin(r, body, dbOk) ==
    /\ pc[r] = "idle"
    /\ sreq' = [sreq EXCEPT ![r] = body]
    /\ IF ~dbOk
       THEN /\ sresp' = [sresp EXCEPT ![r] =
                    AuthResponse(500, FALSE, "connect failed", "", <<>>, <<>>)]
            /\ pc' = [pc EXCEPT ![r] = "done"]
       ELSE IF SignupValidation(body) # ""
       THEN /\ sresp' = [sresp EXCEPT ![r] =
                    AuthResponse(400, FALSE, SignupValidation(body), "", <<>>, <<>>)]
            /\ pc' = [pc EXCEPT ![r] = "done"]
       ELSE IF FindUserByEmail(toLowerCase(body.email)) # {}
       THEN /\ sresp' = [sresp EXCEPT ![r] =
                    AuthResponse(400, FALSE, "Email already registered", "", <<>>, <<>>)]
            /\ pc' = [pc EXCEPT ![r] = "done"]
       ELSE /\ pc' = [pc EXCEPT ![r] = "create"]
            /\ UNCHANGED sresp
    /\ UNCHANGED <<users, nextUserId, plain>>

\* POST /api/auth/signup from User.create on
SignupCreate(r, salt) ==
    /\ pc[r] = "create"
    /\ pc' = [pc EXCEPT ![r] = "done"]
    /\ LET fields == SignupFields(sreq[r])
           outcome == UserCreateOutcome(fields)
           user == UserDoc(nextUserId, UserCast(fields), salt, now)
       IN  IF outcome = "invalid"
           THEN /\ sresp' = [sresp EXCEPT ![r] =
                        AuthResponse(500, FALSE, "User validation failed", "", <<>>, <<>>)]
                /\ UNCHANGED <<users, nextUserId, plain>>
           ELSE IF outcome = "duplicate"
           THEN /\ sresp' = [sresp EXCEPT ![r] =
                        AuthResponse(500, FALSE, "E11000 duplicate key error", "", <<>>, <<>>)]
                /\ UNCHANGED <<users, nextUserId, plain>>
           ELSE /\ nextUserId <= MaxUsers
                /\ users' = users @@ (nextUserId :> user)
                /\ plain' = plain @@ (nextUserId :> fields.password)
                /\ nextUserId' = nextUserId + 1
                /\ sresp' = [sresp EXCEPT ![r] =
                        AuthResponse(201, TRUE, "", "User registered successfully",
                            <<generateToken(user._id, user.email, now)>>,
                            <<PublicUser(user)>>)]
    /\ UNCHANGED sreq

NoSignup == [fullName |-> <<>>, email |-> <<>>, password |-> <<>>,
             confirmPassword |-> <<>>]

\* the client that got its answer sends another signup
SignupAgain(r) ==
    /\ pc[r] = "done"
    /\ pc' = [pc EXCEPT ![r] = "idle"]
    /\ sreq' = [sreq EXCEPT ![r] = NoSignup]
    /\ sresp' = [sresp EXCEPT ![r] = NoResponse]
    /\ UNCHANGED <<users, nextUserId, plain>>

\* LoginResponse with an answer of its own for an email without a record
LoginResponse_UserNotFound(email, password, t) ==
    IF email = <<>> \/ password = <<>>
    THEN AuthResponse(400, FALSE, "Email and password are required", "", <<>>, <<>>)
    ELSE LET found == FindUserByEmail(toLowerCase(email))
         IN  IF found = {}
             THEN AuthResponse(404, FALSE, "User not found", "", <<>>, <<>>)
             ELSE LET user == users[CHOOSE u \in found : TRUE]
                  IN  IF ~comparePassword(user, password)
                      THEN AuthResponse(401, FALSE, "Invalid email or password", "",
                                        <<>>, <<>>)
                      ELSE AuthResponse(200, TRUE, "", "Login successful",
                               <<generateToken(user._id, user.email, t)>>,
                               <<PublicUser(user)>>)

\* POST /api/auth/login at time t
LoginResponse(email, password, t) ==
    IF email = <<>> \/ password = <<>>
    THEN AuthResponse(400, FALSE, "Email and password are required", "", <<>>, <<>>)
    ELSE LET found == FindUserByEmail(toLowerCase(email))
         IN  IF found = {}
             THEN AuthResponse(401, FALSE, "Invalid email or password", "", <<>>, <<>>)
             ELSE LET user == users[CHOOSE u \in found : TRUE]
                  IN  IF ~comparePassword(user, password)
                      THEN AuthResponse(401, FALSE, "Invalid email or password", "",
                                        <<>>, <<>>)
                      ELSE AuthResponse(200, TRUE, "", "Login successful",
                               <<generateToken(user._id, user.email, t)>>,
                               <<PublicUser(user)>>)

\* MeResponse that reads the userId out of the token without verifying it
MeResponse_Unverified(authHeader, t) ==
    LET token == extractTokenFromHeader(authHeader)
        userId == IF token # <<>> /\ Len(token[1]) >= 2
                  THEN token[1][2].userId ELSE NullId
    IN  IF userId = NullId
        THEN AuthResponse(401, FALSE, "Unauthorized - No token provided", "", <<>>, <<>>)
        ELSE IF userId \notin DOMAIN users
        THEN AuthResponse(404, FALSE, "User not found", "", <<>>, <<>>)
        ELSE AuthResponse(200, TRUE, "", "", <<>>, <<PublicUser(users[userId])>>)

\* GET /api/auth/me at time t
MeResponse(authHeader, t) ==
    LET userId == getUserIdFromHeader(authHeader, t)
    IN  IF userId = NullId
        THEN AuthResponse(401, FALSE, "Unauthorized - No token provided", "", <<>>, <<>>)
        ELSE IF userId \notin DOMAIN users
        THEN AuthResponse(404, FALSE, "User not found", "", <<>>, <<>>)
        ELSE AuthResponse(200, TRUE, "", "", <<>>, <<PublicUser(users[userId])>>)

Login(email, password, dbOk) ==
    /\ areq' = AuthRequest("login", email, password, <<>>)
    /\ aresp' = IF ~dbOk
                THEN AuthResponse(500, FALSE, "connect failed", "", <<>>, <<>>)
                ELSE LoginResponse(email, password, now)
    /\ UNCHANGED <<users, nextUserId, plain, pc, sreq, sresp>>

Me(authHeader, dbOk) ==
    /\ areq' = AuthRequest("me", <<>>, <<>>, authHeader)
    /\ aresp' = IF getUserIdFromHeader(authHeader, now) # NullId /\ ~dbOk
                THEN AuthResponse(500, FALSE, "connect failed", "", <<>>, <<>>)
                ELSE MeResponse(authHeader, now)
    /\ UNCHANGED <<users, nextUserId, plain, pc, sreq, sresp>>

-----------------------------------------------------------------------------
(* Inputs of the authentication routes                                     *)

NameJan == <<"j", "a", "n">>
NamePadded == <<" ", "J", "a", "n", " ">>
NameShort == <<"j", "o">>

EmailA == <<"a", "@", "x", ".", "c">>
EmailAUpper == <<"A", "@", "X", ".", "c">>
EmailASpace == <<" ", "a", "@", "x", ".", "c">>
EmailB == <<"b", "@", "x", ".", "c">>

Pw1 == <<"s", "e", "c", "r", "e", "t">>
Pw2 == <<"h", "u", "n", "t", "e", "r">>
PwShort == <<"s", "e", "c", "r", "e">>

SignupBody(fullName, email, password, confirmPassword) ==
    [fullName |-> fullName, email |-> email, password |-> password,
     confirmPassword |-> confirmPassword]

\* bodies that pass the route's validation
ValidSignupBodies ==
    {SignupBody(NameJan, EmailA, Pw1, Pw1),
     SignupBody(NamePadded, EmailAUpper, Pw1, Pw1),
     SignupBody(NameJan, EmailB, Pw2, Pw2)}

\* bodies the route or the schema rejects: an email with a leading space,
\* a name of two characters, each field missing, a short password,
\* a confirmation that differs
InvalidSignupBodies ==
    {SignupBody(NameJan, EmailASpace, Pw1, Pw1),
     SignupBody(NameShort, EmailB, Pw1, Pw1),
     SignupBody(<<>>, EmailB, Pw1, Pw1),
     SignupBody(NameJan, <<>>, Pw1, Pw1),
     SignupBody(NameJan, EmailB, <<>>, Pw1),
     SignupBody(NameJan, EmailB, Pw1, <<>>),
     SignupBody(NameJan, EmailB, PwShort, PwShort),
     SignupBody(NameJan, EmailB, Pw1, Pw2)}

SignupBodies == ValidSignupBodies \cup InvalidSignupBodies

TickTimes == {k * TickStep : k \in 0..MaxTicks}

\* the tokens the server can have issued by now to the users it stores
IssuedTokens ==
    UNION {{generateToken(u, users[u].email, t) :
                t \in {x \in TickTimes : users[u].createdAt <= x /\ x <= now}} :
           u \in DOMAIN users}

\* the Authorization headers a request to /api/auth/me may carry
MeHeaders ==
    {<<"Bearer", t>> : t \in IssuedTokens}
        \cup {<<>>, <<"Bearer", ForgedToken>>, <<"Bearer", <<"garbage">>>>}

LoginEmails == {EmailA, EmailAUpper, EmailB, <<>>}
LoginPasswords == {Pw1, Pw2, <<>>}

todoIdle == <<todos, nextId, createdBy, req, resp, client, jwt, db, home>>

-----------------------------------------------------------------------------
(* Two signup requests, each sent once, on an empty User collection        *)

RaceBegin == \E r \in DOMAIN pc, body \in SignupBodies :
    SignupBegin(r, body, TRUE) /\ UNCHANGED <<now, areq, aresp>> /\ UNCHANGED todoIdle
RaceCreate == \E r \in DOMAIN pc, salt \in Salts :
    SignupCreate(r, salt) /\ UNCHANGED <<now, areq, aresp>> /\ UNCHANGED todoIdle

NextSignupRace ==
    \/ RaceBegin
    \/ RaceCreate

InitSignup ==
    /\ now = 0
    /\ todos = <<>>
    /\ nextId = 1
    /\ createdBy = <<>>
    /\ req = NoRequest
    /\ resp = Response(0, FALSE, "", <<>>)
    /\ users = <<>>
    /\ nextUserId = 1
    /\ plain = <<>>
    /\ pc = [r \in {1, 2} |-> "idle"]
    /\ sreq = [r \in {1, 2} |-> NoSignup]
    /\ sresp = [r \in {1, 2} |-> NoResponse]
    /\ areq = NoAuthRequest
    /\ aresp = NoResponse
    /\ client = NoClient
    /\ jwt = NoJwt
    /\ db = NoDb
    /\ home = NoHome

SpecSignupRace == InitSignup /\ [][NextSignupRace]_vars

-----------------------------------------------------------------------------
(* Two clients that keep sending signup requests                           *)

SignupBeginStep == \E r \in DOMAIN pc, body \in SignupBodies :
    SignupBegin(r, body, TRUE) /\ UNCHANGED <<now, areq, aresp>> /\ UNCHANGED todoIdle
SignupCreateStep == \E r \in DOMAIN pc, salt \in Salts :
    SignupCreate(r, salt) /\ UNCHANGED <<now, areq, aresp>> /\ UNCHANGED todoIdle
SignupAgainStep == \E r \in DOMAIN pc :
    SignupAgain(r) /\ UNCHANGED <<now, areq, aresp>> /\ UNCHANGED todoIdle

NextSignup ==
    \/ SignupBeginStep
    \/ SignupCreateStep
    \/ SignupAgainStep

SpecSignup == InitSignup /\ [][NextSignup]_vars

-----------------------------------------------------------------------------
(* One client that signs up and asks who it is, while time passes          *)

AuthSignupBodies ==
    ValidSignupBodies \cup {SignupBody(NameJan, EmailB, Pw1, Pw2)}

AuthBegin == \E body \in AuthSignupBodies :
    SignupBegin(1, body, TRUE) /\ UNCHANGED <<now, areq, aresp>> /\ UNCHANGED todoIdle
AuthCreate == \E salt \in Salts :
    SignupCreate(1, salt) /\ UNCHANGED <<now, areq, aresp>> /\ UNCHANGED todoIdle
AuthAgain ==
    SignupAgain(1) /\ UNCHANGED <<now, areq, aresp>> /\ UNCHANGED todoIdle
AuthMe == \E h \in MeHeaders :
    Me(h, TRUE) /\ UNCHANGED <<now>> /\ UNCHANGED todoIdle
AuthTick ==
    Tick /\ UNCHANGED authVars /\ UNCHANGED todoIdle

NextAuth ==
    \/ AuthBegin
    \/ AuthCreate
    \/ AuthAgain
    \/ AuthMe
    \/ AuthTick

InitAuth ==
    /\ now = 0
    /\ todos = <<>>
    /\ nextId = 1
    /\ createdBy = <<>>
    /\ req = NoRequest
    /\ resp = Response(0, FALSE, "", <<>>)
    /\ users = <<>>
    /\ nextUserId = 1
    /\ plain = <<>>
    /\ pc = [r \in {1} |-> "idle"]
    /\ sreq = [r \in {1} |-> NoSignup]
    /\ sresp = [r \in {1} |-> NoResponse]
    /\ areq = NoAuthRequest
    /\ aresp = NoResponse
    /\ client = NoClient
    /\ jwt = NoJwt
    /\ db = NoDb
    /\ home = NoHome

SpecAuth == InitAuth /\ [][NextAuth]_vars

-----------------------------------------------------------------------------
(* One client that signs up and logs in                                    *)

LoginBegin == \E body \in AuthSignupBodies :
    SignupBegin(1, body, TRUE) /\ UNCHANGED <<now, areq, aresp>> /\ UNCHANGED todoIdle
LoginCreate == \E salt \in Salts :
    SignupCreate(1, salt) /\ UNCHANGED <<now, areq, aresp>> /\ UNCHANGED todoIdle
LoginAgain ==
    SignupAgain(1) /\ UNCHANGED <<now, areq, aresp>> /\ UNCHANGED todoIdle
LoginStep == \E email \in LoginEmails, password \in LoginPasswords :
    Login(email, password, TRUE) /\ UNCHANGED <<now>> /\ UNCHANGED todoIdle

NextLogin ==
    \/ LoginBegin
    \/ LoginCreate
    \/ LoginAgain
    \/ LoginStep

SpecLogin == InitAuth /\ [][NextLogin]_vars

-----------------------------------------------------------------------------
(* The User model used directly: documents are created and saved again     *)

\* two passwords that agree on their first BcryptMaxBytes characters
PwLong1 == Str("x", BcryptMaxBytes) \o <<"1">>
PwLong2 == Str("x", BcryptMaxBytes) \o <<"2">>

ModelPasswords == {Pw1, PwShort, PwLong1, PwLong2}

\* User.create(fields)
ModelCreate(fields, salt) ==
    /\ UserCreateOutcome(fields) = "ok"
    /\ nextUserId <= MaxUsers
    /\ users' = users @@ (nextUserId :> UserDoc(nextUserId, UserCast(fields), salt, now))
    /\ plain' = plain @@ (nextUserId :> fields.password)
    /\ nextUserId' = nextUserId + 1

\* a stored document is loaded, given another fullName and saved:
\* the password path is not modified
ModelSave(u, fullName, salt) ==
    /\ u \in DOMAIN users
    /\ LET c == UserCast([fullName |-> fullName, email |-> users[u].email,
                          password |-> users[u].password])
       IN  /\ Len(c.fullName) >= FullNameMinLength
           /\ Len(c.fullName) <= FullNameMaxLength
           /\ users' = [users EXCEPT ![u] =
                  [@ EXCEPT !.fullName = c.fullName,
                            !.password = preSave(users[u].password, FALSE, salt),
                            !.updatedAt = now]]
    /\ UNCHANGED <<plain, nextUserId>>

ModelCreateStep ==
    \E name \in {NameJan, NameShort}, email \in {EmailA, EmailAUpper, EmailB},
       password \in ModelPasswords, salt \in Salts :
        /\ ModelCreate([fullName |-> name, email |-> email, password |-> password], salt)
        /\ UNCHANGED <<now, pc, sreq, sresp, areq, aresp>>
        /\ UNCHANGED todoIdle
ModelSaveStep ==
    \E u \in DOMAIN users, name \in {NamePadded, NameShort}, salt \in Salts :
        /\ ModelSave(u, name, salt)
        /\ UNCHANGED <<now, pc, sreq, sresp, areq, aresp>>
        /\ UNCHANGED todoIdle

NextUserModel ==
    \/ ModelCreateStep
    \/ ModelSaveStep

SpecUserModel == InitAuth /\ [][NextUserModel]_vars

-----------------------------------------------------------------------------
(* Claims about signup, login and the User model                           *)

\* the body passes the route's validation and the schema's
SignupAcceptable(body) ==
    /\ body.fullName # <<>> /\ body.email # <<>>
    /\ Len(body.password) >= PasswordMinLength
    /\ body.password = body.confirmPassword
    /\ UserValid(UserCast(SignupFields(body)))

\* lower-cased and trimmed
NormalizedEmail(email) == toLowerCase(trim(email))

\* C5: of two signup requests with the same email (compared without case),
\* in any interleaving, exactly one is answered with success and the other
\* with 400 "Email already registered"; the winner's record is the stored one.
C5_ConcurrentSignupOneWins ==
    \A r1, r2 \in DOMAIN pc :
        (/\ r1 # r2
         /\ pc[r1] = "done" /\ pc[r2] = "done"
         /\ SignupAcceptable(sreq[r1]) /\ SignupAcceptable(sreq[r2])
         /\ toLowerCase(sreq[r1].email) = toLowerCase(sreq[r2].email))
        => \E w, l \in {r1, r2} :
              /\ w # l
              /\ sresp[w].status = 201
              /\ sresp[l].status = 400
              /\ sresp[l].error = "Email already registered"
              /\ \E u \in DOMAIN users : <<PublicUser(users[u])>> = sresp[w].user

\* C6: the User collection holds at most one record per normalized email.
C6_OneRecordPerNormalizedEmail ==
    \A u, v \in DOMAIN users :
        u # v => NormalizedEmail(users[u].email) # NormalizedEmail(users[v].email)

\* both addresses are registered, and signups with the first address in
\* upper case and with a leading space have been answered
C6_Witness ==
    /\ Cardinality(DOMAIN users) = 2
    /\ \E r1, r2 \in DOMAIN pc :
          /\ pc[r1] = "done" /\ sreq[r1].email = EmailAUpper /\ sresp[r1].status # 201
          /\ pc[r2] = "done" /\ sreq[r2].email = EmailASpace /\ sresp[r2].status # 201

\* C7: for any password, the login answer for a registered email with a
\* password that does not match equals, in status and body, the answer for an
\* email without a record.
C7_LoginFailuresIndistinguishable ==
    \A e1, e2 \in LoginEmails \ {<<>>}, p \in LoginPasswords :
        (/\ \E u \in DOMAIN users :
                users[u].email = toLowerCase(e1) /\ ~comparePassword(users[u], p)
         /\ FindUserByEmail(toLowerCase(e2)) = {})
        => LoginResponse(e1, p, now) = LoginResponse(e2, p, now)

\* a login with a registered email and a wrong password was answered 401
\* while another address has no record
C7_Witness ==
    /\ areq.op = "login"
    /\ areq.password # <<>>
    /\ \E u \in DOMAIN users :
          users[u].email = toLowerCase(areq.email)
              /\ ~comparePassword(users[u], areq.password)
    /\ aresp.status = 401
    /\ FindUserByEmail(EmailB) = {}

\* what the claim calls an invalid signup body
SignupInvalid(body) ==
    \/ body.fullName = <<>> \/ body.email = <<>>
    \/ body.password = <<>> \/ body.confirmPassword = <<>>
    \/ Len(body.password) < 6
    \/ body.password # body.confirmPassword

SignupSucceeded(r) == pc[r] = "done" /\ sresp[r].status = 201

\* the answer of /api/auth/me for user u
MeAnswer(u) == AuthResponse(200, TRUE, "", "", <<>>, <<PublicUser(users[u])>>)

PasswordCandidates == {Pw1, Pw2, PwShort, PwLong1, PwLong2}

\* C10, as stated: the stored password differs from the plaintext,
\* comparePassword accepts the plaintext and rejects every other plaintext.
C10_HashedAndOnlyPlaintextMatches ==
    \A u \in DOMAIN users :
        /\ users[u].password # plain[u]
        /\ comparePassword(users[u], plain[u])
        /\ \A c \in PasswordCandidates \ {plain[u]} : ~comparePassword(users[u], c)

StoredPasswordsSound ==
    \A u \in DOMAIN users :
        /\ users[u].password # plain[u]
        /\ comparePassword(users[u], plain[u])
        /\ \A c \in PasswordCandidates :
              bcryptKey(c) # bcryptKey(plain[u]) => ~comparePassword(users[u], c)

\* C10, amended: the stored password differs from the plaintext,
\* comparePassword accepts the plaintext and rejects every plaintext that
\* differs from it within the first 72 characters; a save that does not
\* modify the password leaves the stored value as it is.
C10_HashedAndKeyMatches ==
    /\ []StoredPasswordsSound
    /\ [][\A u \in DOMAIN users : users'[u].password = users[u].password]_vars

\* a user with a password longer than 72 characters was created and then
\* saved again with another fullName
C10_Witness ==
    \E u \in DOMAIN users :
        /\ plain[u] = PwLong1
        /\ users[u].fullName = trim(NamePadded)

-----------------------------------------------------------------------------
(* Claims about the todo routes                                            *)

\* the owner field of a stored document, NullId when it has none
TodoOwner(doc) == IF "userId" \in DOMAIN doc THEN doc.userId ELSE NullId

\* the step serves a get, update or delete by a verified user on an item
\* that another verified user created
CrossUserRequest ==
    /\ req'.op \in {"get", "put", "delete"}
    /\ req'.requester # NullId
    /\ req'.id \in DOMAIN todos
    /\ createdBy[req'.id] \notin {NullId, req'.requester}

\* C1: a get-by-id, update or delete made with user A's identity on an item
\* owned by another user B is answered 404 and leaves the item unchanged and
\* stored.
C1_CrossUserRequestIsNotFound ==
    [][CrossUserRequest => (resp'.status = 404 /\ todos' = todos)]_vars

\* C2: the data returned by GET on the collection holds no item owned by a
\* user other than the requester.
C2_ListReturnsOnlyOwnItems ==
    (req.op = "list" /\ resp.status = 200) =>
        \A k \in 1..Len(resp.data) :
            createdBy[resp.data[k]._id] \in {NullId, req.requester}

\* C3: an item operation whose token is missing, malformed, badly signed or
\* expired is answered 401 and leaves the item store unchanged.
C3_UnverifiedRequestIsUnauthorized ==
    [][(req'.op \in {"list", "create", "get", "put", "delete"}
            /\ req'.requester = NullId)
        => (resp'.status = 401 /\ todos' = todos)]_vars

\* C4: in every state, the owner of every stored item that an authenticated
\* user created is that user: no create or update body sets or changes it.
C4_OwnerIsCreator ==
    \A id \in DOMAIN todos :
        createdBy[id] # NullId => TodoOwner(todos[id]) = createdBy[id]

-----------------------------------------------------------------------------
(* One client that signs up, logs in and asks who it is, while time passes *)

\* signups that succeed, that the route rejects and that the schema rejects
SessionSignupBodies ==
    ValidSignupBodies
        \cup {SignupBody(NameJan, EmailB, Pw1, Pw2),
              SignupBody(NameShort, EmailB, Pw1, Pw1)}

SessionBegin == \E body \in SessionSignupBodies :
    SignupBegin(1, body, TRUE) /\ UNCHANGED <<now, areq, aresp>> /\ UNCHANGED todoIdle
SessionCreate == \E salt \in Salts :
    SignupCreate(1, salt) /\ UNCHANGED <<now, areq, aresp>> /\ UNCHANGED todoIdle
SessionAgain ==
    SignupAgain(1) /\ UNCHANGED <<now, areq, aresp>> /\ UNCHANGED todoIdle
SessionLogin == \E email \in LoginEmails, password \in LoginPasswords :
    Login(email, password, TRUE) /\ UNCHANGED <<now>> /\ UNCHANGED todoIdle
SessionMe == \E h \in MeHeaders :
    Me(h, TRUE) /\ UNCHANGED <<now>> /\ UNCHANGED todoIdle
SessionTick ==
    Tick /\ UNCHANGED authVars /\ UNCHANGED todoIdle

NextSession ==
    \/ SessionBegin
    \/ SessionCreate
    \/ SessionAgain
    \/ SessionLogin
    \/ SessionMe
    \/ SessionTick

SpecSession == InitAuth /\ [][NextSession]_vars

-----------------------------------------------------------------------------
(* Claims about what the authentication routes hand out                    *)

\* the texts the routes answer with; none is built from a request or a record
ErrorTexts ==
    {"", "All fields are required", "Password must be at least 6 characters",
     "Passwords do not match", "Email already registered",
     "User validation failed", "E11000 duplicate key error",
     "Email and password are required", "Invalid email or password",
     "Unauthorized - No token provided", "User not found", "connect failed"}

MessageTexts == {"", "User registered successfully", "Login successful"}

\* the stored password values and the plaintexts they were made from
Secrets == {users[u].password : u \in DOMAIN users} \cup {plain[u] : u \in DOMAIN plain}

\* a response carries no password field and no secret as a value
CarriesNoPassword(r) ==
    /\ r.error \in ErrorTexts
    /\ r.message \in MessageTexts
    /\ r.user # <<>> =>
          /\ DOMAIN r.user[1] = {"_id", "fullName", "email"}
          /\ r.user[1].fullName \notin Secrets
          /\ r.user[1].email \notin Secrets
    /\ r.token # <<>> =>
          /\ DOMAIN r.token[1][2] = {"userId", "email", "iat", "exp"}
          /\ r.token[1][2].email \notin Secrets

\* C11: no response of signup, login or WhoAmI, on success or on failure,
\* contains a user's password or password hash.
C11_ResponsesCarryNoPassword ==
    /\ \A r \in DOMAIN sresp : CarriesNoPassword(sresp[r])
    /\ CarriesNoPassword(aresp)

\* a signup has succeeded and a login with the stored user's password, for
\* which the document is loaded with its password, has been answered 200
C11_Witness ==
    /\ SignupSucceeded(1)
    /\ areq.op = "login"
    /\ aresp.status = 200
    /\ \E u \in DOMAIN users :
          /\ aresp.user[1]._id = u
          /\ IsBcryptHash(users[u].password)
          /\ plain[u] = areq.password

-----------------------------------------------------------------------------
(* The token helpers used directly: issue, present, verify, as time passes *)

TokenUserIds == 1..MaxUsers
TokenEmails == {EmailA, EmailAUpper, <<>>}

\* what is presented for verification, made from an issued token: the token
\* itself, the same claims signed with another key, the claims changed to
\* another user under the old signature, the token without its signature,
\* and a string that is no token
PresentedKinds == {"issued", "wrongKey", "tampered", "truncated", "garbage"}

Presented(kind, tk) ==
    CASE kind = "issued" -> tk
      [] kind = "wrongKey" -> <<tk[1], tk[2], Signature(tk[2], "guess")>>
      [] kind = "tampered" ->
            <<tk[1], [tk[2] EXCEPT !.userId = tk[2].userId + 1], tk[3]>>
      [] kind = "truncated" -> <<tk[1], tk[2]>>
      [] OTHER -> <<"garbage">>

tokenIdle == <<todos, nextId, createdBy, req, resp, users, nextUserId, plain,
               pc, sreq, sresp, areq, aresp, client, db, home>>

\* generateToken(userId, email)
TokenIssue ==
    \E userId \in TokenUserIds, email \in TokenEmails :
        /\ jwt' = [userId |-> userId, email |-> email,
                   issued |-> <<generateToken(userId, email, now)>>,
                   issuedAt |-> now,
                   presented |-> <<>>, at |-> 0, verified |-> <<>>]
        /\ UNCHANGED now
        /\ UNCHANGED tokenIdle

\* verifyToken(token)
TokenVerify ==
    \E kind \in PresentedKinds :
        /\ jwt.issued # <<>>
        /\ jwt' = [jwt EXCEPT
                      !.presented = <<Presented(kind, jwt.issued[1])>>,
                      !.at = now,
                      !.verified = verifyToken(Presented(kind, jwt.issued[1]), now)]
        /\ UNCHANGED now
        /\ UNCHANGED tokenIdle

TokenTick ==
    Tick /\ UNCHANGED jwt /\ UNCHANGED tokenIdle

NextToken ==
    \/ TokenIssue
    \/ TokenVerify
    \/ TokenTick

SpecToken == InitAuth /\ [][NextToken]_vars

\* C12: verifying an issued token before its expiry, 7 days after the issue,
\* returns the userId and email it was issued for; verifying it from its
\* expiry on, or verifying anything else made from it (another signature,
\* changed claims, missing parts, no token at all), fails.
C12_TokenRoundTrip ==
    jwt.presented # <<>> =>
        IF jwt.presented = jwt.issued /\ jwt.at < jwt.issuedAt + ExpiresIn
        THEN /\ jwt.verified # <<>>
             /\ jwt.verified[1].userId = jwt.userId
             /\ jwt.verified[1].email = jwt.email
        ELSE jwt.verified = <<>>

\* an issued token was verified before its expiry and returned its user
C12_Witness ==
    /\ jwt.presented = jwt.issued
    /\ jwt.issued # <<>>
    /\ jwt.issuedAt > 0
    /\ jwt.at > jwt.issuedAt
    /\ jwt.verified # <<>>
    /\ jwt.verified[1].userId = 2
    /\ jwt.verified[1].email = EmailAUpper

\* an issued token was presented at the instant of its expiry and refused
C12_WitnessExpired ==
    /\ jwt.presented = jwt.issued
    /\ jwt.issued # <<>>
    /\ jwt.at = jwt.issuedAt + ExpiresIn
    /\ jwt.verified = <<>>

-----------------------------------------------------------------------------
(* One client that signs up and asks who it is, while time passes and the  *)
(* store comes and goes                                                    *)

sessionIdle == <<todos, nextId, createdBy, req, resp, jwt, db, home>>

WhoBegin == \E body \in AuthSignupBodies :
    SignupBegin(1, body, TRUE) /\ UNCHANGED <<now, areq, aresp>> /\ UNCHANGED todoIdle
WhoCreate == \E salt \in Salts :
    SignupCreate(1, salt) /\ UNCHANGED <<now, areq, aresp>> /\ UNCHANGED todoIdle
WhoAgain ==
    SignupAgain(1) /\ UNCHANGED <<now, areq, aresp>> /\ UNCHANGED todoIdle
\* fetchUser: GET /api/auth/me with the header, the store reachable or not
WhoMe == \E h \in MeHeaders, dbOk \in BOOLEAN :
    /\ Me(h, dbOk)
    /\ client' = [client EXCEPT !.sent = Sent("me", h, now, FALSE)]
    /\ UNCHANGED now
    /\ UNCHANGED sessionIdle
WhoTick ==
    Tick /\ UNCHANGED authVars /\ UNCHANGED todoIdle

NextWhoAmI ==
    \/ WhoBegin
    \/ WhoCreate
    \/ WhoAgain
    \/ WhoMe
    \/ WhoTick

SpecWhoAmI == InitAuth /\ [][NextWhoAmI]_vars

\* the user the header sent last stood for when it was sent, NullId for none
SentUserId == getUserIdFromHeader(client.sent.header, client.sent.at)

Unauthorized(r) == r.status = 401 /\ ~r.success /\ r.user = <<>>

\* C13, as stated: WhoAmI answers 401 whenever the token is missing, invalid
\* or expired, and in every other case returns the current user without the
\* hash, never another error.
C13_WhoAmIAuthErrorOrUser ==
    client.sent.op = "me" =>
        IF SentUserId = NullId
        THEN Unauthorized(aresp)
        ELSE /\ SentUserId \in DOMAIN users
             /\ aresp = MeAnswer(SentUserId)

\* C13, amended: WhoAmI answers 401 whenever the token is missing, invalid
\* or expired; for a validly signed, unexpired token it answers 500 when the
\* store cannot be reached, 404 when no record has the token's userId, and
\* in every other case returns that user's id, fullName and email.
C13_WhoAmIAuthErrorOrUserOrStoreError ==
    client.sent.op = "me" =>
        IF SentUserId = NullId
        THEN Unauthorized(aresp)
        ELSE \/ aresp.status = 500 /\ ~aresp.success /\ aresp.user = <<>>
             \/ SentUserId \notin DOMAIN users
                    /\ aresp.status = 404 /\ ~aresp.success /\ aresp.user = <<>>
             \/ SentUserId \in DOMAIN users /\ aresp = MeAnswer(SentUserId)

\* /api/auth/me was asked with an issued, unexpired token some time after
\* the signup while the store could not be reached
C13_Witness ==
    /\ client.sent.op = "me"
    /\ client.sent.at > 0
    /\ SentUserId \in DOMAIN users
    /\ aresp.status = 500

\* /api/auth/me was asked with a token that had expired and answered 401
C13_WitnessExpired ==
    /\ client.sent.op = "me"
    /\ client.sent.header # <<>>
    /\ client.sent.header[2] \in IssuedTokens
    /\ Unauthorized(aresp)

-----------------------------------------------------------------------------
(* One browser that signs up, logs out and keeps presenting the token it   *)
(* dropped, to /api/auth/me and to the todo list, while time passes        *)

\* the tokens the browser holds or has held
ClientTokens == client.captured \cup {client.authToken[k] : k \in DOMAIN client.authToken}

LogoutBegin == \E body \in AuthSignupBodies :
    SignupBegin(1, body, TRUE) /\ UNCHANGED <<now, areq, aresp>> /\ UNCHANGED todoIdle
\* handleSubmit of the signup form: on success the token goes to localStorage
LogoutCreate == \E salt \in Salts :
    /\ SignupCreate(1, salt)
    /\ client' = IF sresp'[1].success
                 THEN [client EXCEPT !.authToken = sresp'[1].token]
                 ELSE client
    /\ UNCHANGED <<now, areq, aresp>>
    /\ UNCHANGED sessionIdle
\* handleLogout: the token is removed from localStorage, nothing is sent
Logout ==
    /\ client.authToken # <<>>
    /\ client' = [client EXCEPT !.authToken = <<>>,
                                !.captured = @ \cup {client.authToken[1]}]
    /\ UNCHANGED <<now, users, nextUserId, plain, pc, sreq, sresp, areq, aresp>>
    /\ UNCHANGED sessionIdle
LogoutMe == \E tk \in ClientTokens :
    /\ Me(<<"Bearer", tk>>, TRUE)
    /\ client' = [client EXCEPT
                     !.sent = Sent("me", <<"Bearer", tk>>, now, tk \in client.captured)]
    /\ UNCHANGED now
    /\ UNCHANGED sessionIdle
LogoutList == \E tk \in ClientTokens :
    /\ ListTodos(<<"Bearer", tk>>, "all", TRUE)
    /\ client' = [client EXCEPT
                     !.sent = Sent("list", <<"Bearer", tk>>, now, tk \in client.captured)]
    /\ UNCHANGED <<now, jwt, db, home>>
    /\ UNCHANGED <<users, nextUserId, plain, pc, sreq, sresp, areq, aresp>>
LogoutTick ==
    Tick /\ UNCHANGED authVars /\ UNCHANGED todoIdle

NextLogout ==
    \/ LogoutBegin
    \/ LogoutCreate
    \/ Logout
    \/ LogoutMe
    \/ LogoutList
    \/ LogoutTick

SpecLogout == InitAuth /\ [][NextLogout]_vars

\* the request sent last was refused for its token
SentRejected ==
    IF client.sent.op = "me" THEN aresp.status = 401 ELSE resp.status = 401

\* C14: a token the browser dropped at logout is still accepted afterwards,
\* by /api/auth/me and by the todo routes, as long as its expiry time has not
\* been reached, and is refused (401) from then on.
C14_LoggedOutTokenValidUntilExpiry ==
    client.sent.afterLogout =>
        (SentRejected <=> client.sent.at >= client.sent.header[2][2].exp)

\* the part of C14 that /api/auth/me alone is asked for
LogoutMeUntilExpiry ==
    (client.sent.afterLogout /\ client.sent.op = "me") =>
        (SentRejected <=> client.sent.at >= client.sent.header[2][2].exp)

\* after logout the dropped token was accepted by /api/auth/me
LogoutMeAccepted ==
    /\ client.sent.afterLogout
    /\ client.sent.op = "me"
    /\ aresp.status = 200

-----------------------------------------------------------------------------
(* The todo list: items are created, toggled and listed with a status      *)
(* filter, while time passes                                               *)

ListHeader == <<"Bearer", ClientToken(1)>>

\* the filter values the page sends as ?status=
FilterTypes == {"all", "complete", "incomplete"}

\* a body without status, one with status complete, and one that brings its
\* own createdAt
ListCreateBodies ==
    {[title |-> <<"a">>, description |-> <<"d">>, dueDate |-> 1],
     [title |-> <<"a">>, description |-> <<"d">>, dueDate |-> 1, status |-> "complete"],
     [title |-> <<"a">>, description |-> <<"d">>, dueDate |-> 1, createdAt |-> 0]}

\* fetchTodos with the filter
ListFetch == \E q \in FilterTypes :
    ListTodos(ListHeader, q, TRUE) /\ UNCHANGED <<now>> /\ UNCHANGED authVars
\* handleCreateTodo
ListCreate == \E b \in ListCreateBodies :
    CreateTodo(ListHeader, b, TRUE) /\ UNCHANGED <<now>> /\ UNCHANGED authVars
\* handleToggleStatus: PUT with the other status
ListToggle == \E id \in DOMAIN todos :
    /\ PutTodo(ListHeader, id,
           [status |-> IF todos[id].status = "complete" THEN "incomplete" ELSE "complete"],
           TRUE)
    /\ UNCHANGED <<now>>
    /\ UNCHANGED authVars
ListTick ==
    Tick /\ UNCHANGED authVars /\ UNCHANGED todoVars

NextTodoList ==
    \/ ListFetch
    \/ ListCreate
    \/ ListToggle
    \/ ListTick

\* the list page, observed from the time the client's token was issued
InitTodoList ==
    /\ now = TickStep
    /\ todos = <<>>
    /\ nextId = 1
    /\ createdBy = <<>>
    /\ req = NoRequest
    /\ resp = Response(0, FALSE, "", <<>>)
    /\ users = <<>>
    /\ nextUserId = 1
    /\ plain = <<>>
    /\ pc = <<>>
    /\ sreq = <<>>
    /\ sresp = <<>>
    /\ areq = NoAuthRequest
    /\ aresp = NoResponse
    /\ client = NoClient
    /\ jwt = NoJwt
    /\ db = NoDb
    /\ home = NoHome

SpecTodoList == InitTodoList /\ [][NextTodoList]_vars

\* the ids of the items in the data of a list response
ReturnedIds(r) == {r.data[k]._id : k \in 1..Len(r.data)}

\* C15: a list with status=complete returns exactly the requester's items
\* whose status is complete, and a list with status=incomplete exactly those
\* whose status is incomplete.
C15_StatusFilterReturnsExactlyMatching ==
    [][(/\ now' = now
        /\ req'.op = "list"
        /\ req'.q \in TodoStatusEnum
        /\ req'.requester # NullId
        /\ resp'.status = 200)
       => ReturnedIds(resp') =
            {i \in DOMAIN todos :
                todos[i].status = req'.q /\ createdBy[i] = req'.requester}]_vars

\* C16: an item created without a status field is stored with status
\* 'incomplete'.
C16_DefaultStatusIncomplete ==
    [][(/\ nextId' # nextId
        /\ req'.op = "create"
        /\ resp'.status = 201
        /\ ~Has(req'.body, "status"))
       => /\ nextId \in DOMAIN todos'
          /\ todos'[nextId].status = "incomplete"
          /\ resp'.data[1] = todos'[nextId]]_vars

\* the create answered last had no status in its body and its item is
\* stored as incomplete
C16_Witness ==
    /\ req.op = "create"
    /\ resp.status = 201
    /\ ~Has(req.body, "status")
    /\ resp.data[1]._id \in DOMAIN todos
    /\ todos[resp.data[1]._id].status = "incomplete"

\* C17, as stated: of any two items of a list response the one created later
\* comes first, whatever was updated since (ids are given in the order of
\* creation).
C17_ListNewestCreatedFirst ==
    (req.op = "list" /\ resp.status = 200) =>
        \A i, j \in 1..Len(resp.data) :
            i < j => resp.data[i]._id > resp.data[j]._id

\* a list response is in descending order of createdAt
ListedByCreatedAt ==
    (req.op = "list" /\ resp.status = 200) =>
        \A i, j \in 1..Len(resp.data) :
            i < j => resp.data[i].createdAt >= resp.data[j].createdAt

\* a step gives a new item the createdAt of its body, or else the time of
\* the create, leaves the createdAt of every stored item as it is, and a
\* list returns the stored items
CreatedAtSetOnce ==
    /\ \A id \in DOMAIN todos' \ DOMAIN todos :
          todos'[id].createdAt =
              IF Has(req'.body, "createdAt") THEN req'.body.createdAt ELSE now
    /\ \A id \in DOMAIN todos' \cap DOMAIN todos :
          todos'[id].createdAt = todos[id].createdAt
    /\ (now' = now /\ req'.op = "list" /\ resp'.status = 200) =>
          /\ Len(resp'.data) = Cardinality(DOMAIN todos)
          /\ \A k \in 1..Len(resp'.data) :
                /\ resp'.data[k]._id \in DOMAIN todos
                /\ resp'.data[k] = todos[resp'.data[k]._id]

\* C17, amended: of any two items of a list response the one with the later
\* createdAt comes first (items with the same createdAt in either order);
\* createdAt is the time of the create unless the create body brought one,
\* and no update changes it.
C17_ListByCreatedAtDescending ==
    /\ []ListedByCreatedAt
    /\ [][CreatedAtSetOnce]_vars

\* a list returned the item created first before the item created second,
\* which had brought an earlier createdAt, after the first had been updated
C17_Witness ==
    /\ req.op = "list"
    /\ Len(resp.data) = 2
    /\ resp.data[1]._id < resp.data[2]._id
    /\ resp.data[1].createdAt > resp.data[2].createdAt
    /\ resp.data[1].updatedAt > resp.data[1].createdAt

\* a list returned two items with the same createdAt, the older one first
ListTieOlderFirst ==
    /\ req.op = "list"
    /\ Len(resp.data) = 2
    /\ resp.data[1]._id < resp.data[2]._id
    /\ resp.data[1].createdAt = resp.data[2].createdAt

-----------------------------------------------------------------------------
(* Single items: created, read, updated and deleted by id, with ids that   *)
(* are stored, unknown, deleted or malformed, while time passes            *)

ItemIds == IdInputs \cup {MalformedId}

ItemCreateBody == [title |-> <<"a">>, description |-> <<"d">>, dueDate |-> 1]

\* partial bodies: a title to be trimmed, a status outside the enum, and a
\* status that comes with fields the client does not own
ItemUpdateBodies ==
    {[title |-> <<" ", "b">>],
     [status |-> "completed"],
     [status |-> "complete", userId |-> 2, createdAt |-> 0]}

ItemCreate ==
    CreateTodo(ListHeader, ItemCreateBody, TRUE) /\ UNCHANGED <<now>> /\ UNCHANGED authVars
ItemList ==
    ListTodos(ListHeader, "all", TRUE) /\ UNCHANGED <<now>> /\ UNCHANGED authVars
ItemGet == \E id \in ItemIds :
    GetTodo(ListHeader, id, TRUE) /\ UNCHANGED <<now>> /\ UNCHANGED authVars
ItemPut == \E id \in ItemIds, b \in ItemUpdateBodies :
    PutTodo(ListHeader, id, b, TRUE) /\ UNCHANGED <<now>> /\ UNCHANGED authVars
ItemDelete == \E id \in ItemIds :
    DeleteTodo(ListHeader, id, TRUE) /\ UNCHANGED <<now>> /\ UNCHANGED authVars
\* time passes, within the first half of the life of the client's token
ItemTick ==
    /\ now < ExpiresIn
    /\ Tick
    /\ UNCHANGED authVars
    /\ UNCHANGED todoVars

NextTodoItems ==
    \/ ItemCreate
    \/ ItemList
    \/ ItemGet
    \/ ItemPut
    \/ ItemDelete
    \/ ItemTick

SpecTodoItems == InitTodoList /\ [][NextTodoItems]_vars

\* the step is an update that was answered with success
SuccessfulPut == now' = now /\ req'.op = "put" /\ resp'.status = 200

\* the step changes no item but the one addressed, and adds or removes none
OtherItemsUnchanged ==
    /\ DOMAIN todos' = DOMAIN todos
    /\ \A i \in DOMAIN todos \ {req'.id} : todos'[i] = todos[i]

\* C18, as stated: a successful update changes only the fields of the
\* addressed item that are present in the request body; every field absent
\* from the body, and every other item, is unchanged.
C18_UpdateChangesOnlyBodyFields ==
    [][SuccessfulPut =>
          /\ OtherItemsUnchanged
          /\ \A f \in DOMAIN todos[req'.id] \ DOMAIN req'.body :
                todos'[req'.id][f] = todos[req'.id][f]]_vars

\* the value an update stores for a schema path of its body
StoredValue(body, f) ==
    IF f \in {"title", "description"} THEN trim(body[f]) ELSE body[f]

\* C18, amended: a successful update sets the schema paths present in the
\* body (strings trimmed) and sets updatedAt to the time of the update;
\* every other field of the addressed item, and every other item, is
\* unchanged, and the answer carries the item as stored.
C18_UpdateSetsBodyPathsAndUpdatedAt ==
    [][SuccessfulPut =>
          /\ OtherItemsUnchanged
          /\ \A f \in DOMAIN todos[req'.id] :
                todos'[req'.id][f] =
                    IF f \in DOMAIN req'.body \cap TodoPaths
                    THEN StoredValue(req'.body, f)
                    ELSE IF f = "updatedAt" THEN now
                    ELSE todos[req'.id][f]
          /\ resp'.data = <<todos'[req'.id]>>]_vars

\* an update of the title alone, some time after the create, was answered
\* with the trimmed title, a later updatedAt and the status set before,
\* while another item is stored
C18_Witness ==
    /\ req.op = "put"
    /\ resp.status = 200
    /\ DOMAIN req.body = {"title"}
    /\ resp.data[1].title = <<"b">>
    /\ resp.data[1].status = "complete"
    /\ resp.data[1].updatedAt > resp.data[1].createdAt
    /\ Cardinality(DOMAIN todos) = 2

\* the step is a get, update or delete with an id that no stored item has
UnknownIdRequest ==
    /\ now' = now
    /\ req'.op \in {"get", "put", "delete"}
    /\ req'.id \notin DOMAIN todos

\* the update validators accept the body
UpdateBodyValid(body) == TodoPathsValid(TodoCast(body))

UnknownIdMalformed ==
    /\ req.op = "get"
    /\ req.id = MalformedId
    /\ resp.status = 400

\* the ids of the items that were deleted
Deleted == {id \in 1..(nextId - 1) : id \notin DOMAIN todos}

\* the step is a delete that was answered with success
SuccessfulDelete == now' = now /\ req'.op = "delete" /\ resp'.status = 200

\* a successful delete removes the addressed item and nothing else, and a
\* deleted item is not stored again, nor returned by a list or a get
DeletedForGood ==
    /\ SuccessfulDelete =>
          /\ req'.id \in DOMAIN todos
          /\ DOMAIN todos' = DOMAIN todos \ {req'.id}
          /\ \A i \in DOMAIN todos' : todos'[i] = todos[i]
    /\ \A id \in Deleted :
          /\ id \notin DOMAIN todos'
          /\ (now' = now /\ req'.op \in {"list", "get"}) =>
                id \notin ReturnedIds(resp')

-----------------------------------------------------------------------------
(* Items created and updated with values at and beyond the schema's limits *)

\* a complete body with the given title, description and status
BoundBody(title, description, status) ==
    [title |-> title, description |-> description, dueDate |-> 1, status |-> status]

\* titles of 1, TitleMaxLength and TitleMaxLength + 1 characters and a blank
\* one; descriptions of 1 and DescriptionMaxLength + 1 characters and a
\* blank one; statuses inside and outside the enum
BoundCreateBodies ==
    {BoundBody(<<"a">>, <<"d">>, "complete"),
     BoundBody(Str("t", TitleMaxLength), <<"d">>, "incomplete"),
     BoundBody(Str("t", TitleMaxLength + 1), <<"d">>, "incomplete"),
     BoundBody(<<" ">>, <<"d">>, "incomplete"),
     BoundBody(<<"a">>, Str("d", DescriptionMaxLength + 1), "incomplete"),
     BoundBody(<<"a">>, <<" ">>, "incomplete"),
     BoundBody(<<"a">>, <<"d">>, "completed"),
     BoundBody(<<"a">>, <<"d">>, "")}

BoundUpdateBodies ==
    {[title |-> Str("t", TitleMaxLength + 1)],
     [title |-> <<" ", " ">>],
     [description |-> Str("d", DescriptionMaxLength + 1)],
     [description |-> <<" ">>],
     [status |-> "completed"],
     [status |-> "incomplete"],
     [title |-> <<"b">>, status |-> "Complete"]}

BoundCreate == \E b \in BoundCreateBodies :
    CreateTodo(ListHeader, b, TRUE) /\ UNCHANGED <<now>> /\ UNCHANGED authVars
BoundPut == \E id \in IdInputs, b \in BoundUpdateBodies :
    PutTodo(ListHeader, id, b, TRUE) /\ UNCHANGED <<now>> /\ UNCHANGED authVars
BoundGet == \E id \in IdInputs :
    GetTodo(ListHeader, id, TRUE) /\ UNCHANGED <<now>> /\ UNCHANGED authVars

NextTodoBounds ==
    \/ BoundCreate
    \/ BoundPut
    \/ BoundGet

SpecTodoBounds == InitTodoList /\ [][NextTodoBounds]_vars

\* a body carries a title or description that is blank or too long
BreaksLengthBounds(body) ==
    \/ Has(body, "title")
          /\ (trim(body.title) = <<>> \/ Len(trim(body.title)) > TitleMaxLength)
    \/ Has(body, "description")
          /\ (trim(body.description) = <<>>
                \/ Len(trim(body.description)) > DescriptionMaxLength)

\* C21: every stored item has a non-empty title of at most 100 characters
\* and a non-empty description of at most 500 characters, and a create or
\* update that would break a bound is rejected and stores nothing.
C21_TitleAndDescriptionWithinBounds ==
    /\ \A id \in DOMAIN todos :
          /\ todos[id].title # <<>>
          /\ Len(todos[id].title) <= TitleMaxLength
          /\ todos[id].description # <<>>
          /\ Len(todos[id].description) <= DescriptionMaxLength
    /\ (req.op \in {"create", "put"} /\ BreaksLengthBounds(req.body)) =>
          ~resp.success

\* the bounds of the title alone
TitleWithinBounds ==
    \A id \in DOMAIN todos :
        /\ todos[id].title # <<>>
        /\ Len(todos[id].title) <= TitleMaxLength
        /\ todos[id].description # <<>>

\* the step is a create or an update whose body carries a status outside the
\* enum
BadStatusRequest ==
    /\ req'.op \in {"create", "put"}
    /\ Has(req'.body, "status")
    /\ req'.body.status \notin {"incomplete", "complete"}

\* every stored item has one of the two statuses
StatusInEnum ==
    \A id \in DOMAIN todos : todos[id].status \in {"incomplete", "complete"}

-----------------------------------------------------------------------------
(* The todo routes with a store that can fail                              *)

\* a valid body and one without the required title
FailCreateBodies == {ItemCreateBody, [description |-> <<"d">>, dueDate |-> 1]}

\* a valid partial body and one with a status outside the enum
FailUpdateBodies == {[status |-> "complete"], [status |-> "completed"]}

FailList == \E dbOk \in BOOLEAN :
    ListTodos(ListHeader, "all", dbOk) /\ UNCHANGED <<now>> /\ UNCHANGED authVars
FailCreate == \E b \in FailCreateBodies, dbOk \in BOOLEAN :
    CreateTodo(ListHeader, b, dbOk) /\ UNCHANGED <<now>> /\ UNCHANGED authVars
FailGet == \E id \in ItemIds, dbOk \in BOOLEAN :
    GetTodo(ListHeader, id, dbOk) /\ UNCHANGED <<now>> /\ UNCHANGED authVars
FailPut == \E id \in ItemIds, b \in FailUpdateBodies, dbOk \in BOOLEAN :
    PutTodo(ListHeader, id, b, dbOk) /\ UNCHANGED <<now>> /\ UNCHANGED authVars
FailDelete == \E id \in ItemIds, dbOk \in BOOLEAN :
    DeleteTodo(ListHeader, id, dbOk) /\ UNCHANGED <<now>> /\ UNCHANGED authVars

NextTodoFailures ==
    \/ FailList
    \/ FailCreate
    \/ FailGet
    \/ FailPut
    \/ FailDelete

SpecTodoFailures == InitTodoList /\ [][NextTodoFailures]_vars

\* the messages of the errors the store throws, and of those the validation
\* of the input throws
StoreFailureTexts == {"connect failed"}
ValidationFailureTexts ==
    {"Todo validation failed", "Validation failed", "Cast to ObjectId failed"}

\* C23: a failure of the store during a todo endpoint is answered 500 and a
\* failure of the input's validation 400, so the two never share a status.
C23_StoreFailureIs500ValidationIs400 ==
    /\ resp.error \in StoreFailureTexts => resp.status = 500
    /\ resp.error \in ValidationFailureTexts => resp.status = 400

\* the list route alone answers a store failure with 500
ListStoreFailureIs500 ==
    (req.op = "list" /\ resp.error \in StoreFailureTexts) => resp.status = 500

-----------------------------------------------------------------------------
(* dbConnect (lib/mongodb.ts as listed in TODO_APP_GUIDE.md)               *)
(*                                                                         *)
(* A call runs synchronously up to `await cached.promise`; the rest of it  *)
(* is a microtask queued when the awaited promise settles.  The reactions  *)
(* of one promise are queued together, in the order the callers awaited   *)
(* it, and the queue is drained before the next task (a request, a socket *)
(* event) starts.                                                          *)

\* a scheduler that starts a task while microtasks are still queued
MayEnter_Anytime(queue) == TRUE

\* run to completion: a task starts once the microtask queue is drained
MayEnter(queue) == queue = <<>>

\* a dbConnect that starts a connection attempt on every call without a
\* cached connection
NeedsConnect_Always(promise) == TRUE

\* if (!cached.promise)
NeedsConnect(promise) == promise = 0

\* the callers awaiting promise p, in the order they awaited it
Waiters(p) == SelectSeq(db.order, LAMBDA c : db.waiting[c] = p)

\* dbConnect() up to its await: return the cached connection, or start
\* mongoose.connect unless a promise is cached, and await cached.promise
DbCall(c) ==
    /\ MayEnter(db.queue)
    /\ db.outcome[c] # "waiting"
    /\ IF db.conn # 0
       THEN db' = [db EXCEPT !.outcome[c] = "returned",
                             !.returned = @ \cup {db.conn}]
       ELSE LET fresh == NeedsConnect(db.promise)
                p == IF fresh THEN Len(db.settled) + 1 ELSE db.promise
            IN  /\ fresh => Len(db.settled) < MaxAttempts
                /\ db' = [db EXCEPT
                       !.promise = p,
                       !.settled = IF fresh THEN Append(@, "pending") ELSE @,
                       !.waiting[c] = p,
                       !.outcome[c] = "waiting",
                       !.order = Append(@, c),
                       !.queue = IF ~fresh /\ db.settled[p] # "pending"
                                 THEN Append(@, c) ELSE @]

\* mongoose.connect(...) resolves or rejects: the reactions of its waiters
\* are queued
DbSettle(p, result) ==
    /\ MayEnter(db.queue)
    /\ p \in DOMAIN db.settled
    /\ db.settled[p] = "pending"
    /\ db' = [db EXCEPT !.settled[p] = result, !.queue = @ \o Waiters(p)]

\* dbConnect() after its await: cached.conn = the result and return it, or
\* the catch: cached.promise = null and rethrow
DbResume ==
    /\ db.queue # <<>>
    /\ LET c == Head(db.queue)
           p == db.waiting[c]
       IN  db' = IF db.settled[p] = "resolved"
                 THEN [db EXCEPT !.conn = p,
                                 !.outcome[c] = "returned",
                                 !.returned = @ \cup {p},
                                 !.waiting[c] = 0,
                                 !.order = SelectSeq(@, LAMBDA x : x # c),
                                 !.queue = Tail(@)]
                 ELSE [db EXCEPT !.promise = 0,
                                 !.outcome[c] = "threw",
                                 !.waiting[c] = 0,
                                 !.order = SelectSeq(@, LAMBDA x : x # c),
                                 !.queue = Tail(@)]

dbIdle == <<now, todos, nextId, createdBy, req, resp, userVars, home>>

DbConnectCall == \E c \in DbCallers : DbCall(c) /\ UNCHANGED dbIdle
DbConnectSettle == \E p \in 1..MaxAttempts, result \in {"resolved", "rejected"} :
    DbSettle(p, result) /\ UNCHANGED dbIdle
DbConnectResume == DbResume /\ UNCHANGED dbIdle

NextDbConnect ==
    \/ DbConnectCall
    \/ DbConnectSettle
    \/ DbConnectResume

SpecDbConnect == InitTodoList /\ [][NextDbConnect]_vars

\* C24: under every interleaving of dbConnect calls, mongoose.connect is
\* started at most once while no attempt has failed, every caller that gets a
\* connection gets the same one, and no call starts a connect once
\* cached.conn is set.
C24_ConnectOnceAndShared ==
    /\ []( /\ (\A p \in DOMAIN db.settled : db.settled[p] # "rejected")
                => Len(db.settled) <= 1
           /\ Cardinality(db.returned) <= 1 )
    /\ [][db.conn # 0 => Len(db'.settled) = Len(db.settled)]_vars

\* a caller has the connection of the one attempt, a second caller that
\* awaited the same promise is about to resume, the third has not called
C24_Witness ==
    /\ db.conn = 1
    /\ db.returned = {1}
    /\ Len(db.settled) = 1
    /\ \E c1, c2 \in DbCallers :
          /\ db.outcome[c1] = "returned"
          /\ db.outcome[c2] = "waiting"
          /\ db.waiting[c2] = 1

-----------------------------------------------------------------------------
(* The Home component (app/page.tsx)                                       *)
(*                                                                         *)
(* A handler runs up to its fetch; the server serves the request at once   *)
(* and the response stays in flight until the handler resumes with it, so  *)
(* responses arrive in any order.  A fetch that throws reaches no route.   *)

\* fetch(url) of Home carries no Authorization header
HomeHeader == <<>>

\* what a request of Home meets: a working store, a failing store, or a
\* network that makes fetch throw
Outcomes == {"ok", "fail", "throw"}

\* the outcome of a fetch that threw
Thrown == Response(0, FALSE, "Failed to fetch", <<>>)

\* a request of Home in flight: its number, the handler, the id and body it
\* sent, the todo the handler was called with, the response on its way, and
\* what the handler that awaits it does after it
HomeRequest(n, kind, id, body, from, response, then) ==
    [n |-> n, kind |-> kind, id |-> id, body |-> body, from |-> from,
     response |-> response, then |-> then]

FetchesInFlight(h) == {r \in h.inflight : r.kind = "fetch"}

\* the click on Cancel, submit or Delete that h.click records next
Click(h, what, id, confirmed) ==
    [what |-> what, id |-> id, confirmed |-> confirmed, flip |-> ~h.click.flip]

\* a toggle that always asks for 'complete'
NewStatus_AlwaysComplete(status) == "complete"

\* newStatus of handleToggleStatus
NewStatus(status) == IF status = "complete" THEN "incomplete" ELSE "complete"

\* a handleDeleteTodo that ignores the answer to confirm()
Proceeds_Always(confirmed) == TRUE

\* if (!confirm(...)) return
Proceeds(confirmed) == confirmed

\* a form that always submits to handleUpdateTodo
SubmitsToUpdate_Always(editingTodo) == TRUE

\* onSubmit={editingTodo ? handleUpdateTodo : handleCreateTodo}
SubmitsToUpdate(editingTodo) == editingTodo # <<>>

\* finally { setLoading(false) }
LoadingAtEnd(loading) == FALSE

\* fetchTodos from the state h0 of Home: setLoading(true) and the GET with
\* the filter; `then` is what its caller does when it returns
FetchTodos(h0, o, then) ==
    /\ h0.sent < MaxRequests
    /\ IF o = "throw"
       THEN UNCHANGED todoVars
       ELSE ListTodos(HomeHeader, h0.filter, o = "ok")
    /\ home' = LET r == IF o = "throw" THEN Thrown ELSE resp'
               IN  [h0 EXCEPT !.loading = TRUE,
                              !.sent = @ + 1,
                              !.latest = <<r>>,
                              !.inflight = @ \cup
                                  {HomeRequest(h0.sent + 1, "fetch", 0, <<>>, <<>>, r, then)}]

\* handleCreateTodo up to its fetch
HandleCreateTodo(h0, formData, o) ==
    /\ h0.sent < MaxRequests
    /\ IF o = "throw"
       THEN UNCHANGED todoVars
       ELSE CreateTodo(HomeHeader, formData, o = "ok")
    /\ home' = LET r == IF o = "throw" THEN Thrown ELSE resp'
               IN  [h0 EXCEPT !.sent = @ + 1,
                              !.inflight = @ \cup
                                  {HomeRequest(h0.sent + 1, "create", 0, <<formData>>, <<>>, r, "none")}]

\* the PUT of handleUpdateTodo and of handleToggleStatus
SendPut(h0, kind, id, body, from, o) ==
    /\ h0.sent < MaxRequests
    /\ IF o = "throw"
       THEN UNCHANGED todoVars
       ELSE PutTodo(HomeHeader, id, body, o = "ok")
    /\ home' = LET r == IF o = "throw" THEN Thrown ELSE resp'
               IN  [h0 EXCEPT !.sent = @ + 1,
                              !.inflight = @ \cup
                                  {HomeRequest(h0.sent + 1, kind, id, <<body>>, from, r, "none")}]

\* handleUpdateTodo up to its fetch
HandleUpdateTodo(h0, formData, o) ==
    IF h0.editingTodo = <<>>
    THEN home' = h0 /\ UNCHANGED todoVars
    ELSE SendPut(h0, "update", h0.editingTodo[1]._id, formData, h0.editingTodo, o)

\* handleToggleStatus up to its fetch
HandleToggleStatus(h0, todo, o) ==
    SendPut(h0, "toggle", todo._id, [status |-> NewStatus(todo.status)], <<todo>>, o)

\* handleDeleteTodo up to its fetch
HandleDeleteTodo(h0, id, confirmed, o) ==
    IF ~Proceeds(confirmed)
    THEN home' = h0 /\ UNCHANGED todoVars
    ELSE /\ h0.sent < MaxRequests
         /\ IF o = "throw"
            THEN UNCHANGED todoVars
            ELSE DeleteTodo(HomeHeader, id, o = "ok")
         /\ home' = LET r == IF o = "throw" THEN Thrown ELSE resp'
                    IN  [h0 EXCEPT !.sent = @ + 1,
                                   !.inflight = @ \cup
                                       {HomeRequest(h0.sent + 1, "delete", id, <<>>, <<>>, r, "none")}]

homeIdle == <<now, userVars, db>>

\* useEffect(() => { fetchTodos() }, [filter]) after the first render
HomeMount == \E o \in Outcomes :
    /\ ~home.mounted
    /\ FetchTodos([home EXCEPT !.mounted = TRUE], o, "none")
    /\ UNCHANGED homeIdle

\* a filter button: setFilter, and the effect calls fetchTodos
HomeSetFilter == \E f \in FilterTypes, o \in Outcomes :
    /\ home.mounted
    /\ f # home.filter
    /\ FetchTodos([home EXCEPT !.filter = f], o, "none")
    /\ UNCHANGED homeIdle

\* fetchTodos resumes with its response: setTodos on success, and
\* setLoading(false); handleUpdateTodo, when it awaited this call, goes on
\* with setEditingTodo(null)
HomeFetchEnd == \E r \in FetchesInFlight(home) :
    /\ home' = [home EXCEPT
           !.todos = IF r.response.success THEN r.response.data ELSE @,
           !.loading = LoadingAtEnd(@),
           !.editingTodo = IF r.then = "clearEditing" THEN <<>> ELSE @,
           !.inflight = @ \ {r}]
    /\ UNCHANGED todoVars
    /\ UNCHANGED homeIdle

\* a handler resumes with the response to its POST, PUT or DELETE: on
\* success it calls fetchTodos
HomeCallEnd == \E r \in home.inflight \ FetchesInFlight(home), o \in Outcomes :
    /\ LET h0 == [home EXCEPT !.inflight = @ \ {r}]
       IN  IF r.response.success
           THEN FetchTodos(h0, o, IF r.kind = "update" THEN "clearEditing" ELSE "none")
           ELSE home' = h0 /\ UNCHANGED todoVars
    /\ UNCHANGED homeIdle

\* the Edit button of an item of the list
HomeEdit == \E k \in DOMAIN home.todos :
    /\ ~home.loading
    /\ home' = [home EXCEPT !.editingTodo = <<home.todos[k]>>]
    /\ UNCHANGED todoVars
    /\ UNCHANGED homeIdle

\* the Cancel button, which the form shows while editTodo is set:
\* handleCancelEdit
HomeCancelEdit ==
    /\ home.editingTodo # <<>>
    /\ home' = [home EXCEPT !.editingTodo = <<>>,
                            !.click = Click(home, "cancel", 0, FALSE)]
    /\ UNCHANGED todoVars
    /\ UNCHANGED homeIdle

\* what the blank form submits once the user has filled it in
HomeFormData ==
    {[title |-> <<"b">>, description |-> <<"d">>, dueDate |-> 2, status |-> "incomplete"]}

\* what the form submits in edit mode: the fields it loaded from editTodo,
\* with the title the user typed over
EditFormData(editTodo) ==
    {[title |-> <<"b">>, description |-> editTodo.description,
      dueDate |-> editTodo.dueDate, status |-> editTodo.status]}

\* the form's submit
HomeSubmit == \E o \in Outcomes :
              \E formData \in IF home.editingTodo # <<>>
                               THEN EditFormData(home.editingTodo[1])
                               ELSE HomeFormData :
    /\ home.mounted
    /\ LET h0 == [home EXCEPT !.click = Click(home, "submit", 0, FALSE)]
       IN  IF SubmitsToUpdate(home.editingTodo)
           THEN HandleUpdateTodo(h0, formData, o)
           ELSE HandleCreateTodo(h0, formData, o)
    /\ UNCHANGED homeIdle

\* the status button of an item of the list
HomeToggle == \E k \in DOMAIN home.todos, o \in Outcomes :
    /\ ~home.loading
    /\ HandleToggleStatus(home, home.todos[k], o)
    /\ UNCHANGED homeIdle

\* the Delete button of an item of the list, and the answer to confirm()
HomeDelete == \E k \in DOMAIN home.todos, confirmed \in BOOLEAN, o \in Outcomes :
    /\ ~home.loading
    /\ HandleDeleteTodo(
           [home EXCEPT !.click = Click(home, "delete", home.todos[k]._id, confirmed)],
           home.todos[k]._id, confirmed, o)
    /\ UNCHANGED homeIdle

\* another browser creates an item while Home is open
OtherCreate ==
    /\ CreateTodo(HomeHeader, ItemCreateBody, TRUE)
    /\ UNCHANGED <<home>>
    /\ UNCHANGED homeIdle

\* what was submitted before Home was opened: an item to do, or one done
SeedFormData ==
    {[title |-> <<"a">>, description |-> <<"d">>, dueDate |-> 1, status |-> st] :
        st \in TodoStatusEnum}

\* an item is created before Home is opened
HomeSeedFrom(bodies) == \E formData \in bodies :
    /\ ~home.mounted
    /\ CreateTodo(HomeHeader, formData, TRUE)
    /\ UNCHANGED <<home>>
    /\ UNCHANGED homeIdle

HomeSeed == HomeSeedFrom(SeedFormData)
HomeSeedTodo == HomeSeedFrom({ItemCreateBody})

\* time passes, within the first week
HomeTick ==
    /\ now < ExpiresIn
    /\ Tick
    /\ UNCHANGED <<userVars, db, home>>
    /\ UNCHANGED todoVars

\* the list page while the user changes the filter
NextHomeFilter ==
    \/ HomeMount
    \/ HomeSetFilter
    \/ HomeFetchEnd
    \/ OtherCreate

SpecHomeFilter == InitTodoList /\ [][NextHomeFilter]_vars

\* C26: once every fetchTodos request has completed, Home shows the response
\* to the request made last, the one for the selected filter, in whatever
\* order the responses arrived.
C26_ShowsResponseToLatestRequest ==
    (/\ home.mounted
     /\ FetchesInFlight(home) = {}
     /\ home.latest[1].success)
        => home.todos = home.latest[1].data

\* C27: loading is true while a fetchTodos request is in flight.
C27_LoadingWhileFetchInFlight ==
    FetchesInFlight(home) # {} => home.loading

\* every fetchTodos call that ends sets loading to false, whatever came back
FetchEndClearsLoading ==
    [][FetchesInFlight(home') \subseteq FetchesInFlight(home)
         /\ FetchesInFlight(home') # FetchesInFlight(home)
            => ~home'.loading]_vars

\* the list page while the user toggles items
NextHomeToggle ==
    \/ HomeMount
    \/ HomeFetchEnd
    \/ HomeCallEnd
    \/ HomeToggle
    \/ HomeSeed
    \/ HomeTick

SpecHomeToggle == InitTodoList /\ [][NextHomeToggle]_vars

\* the list page while the user edits items and submits the form
NextHomeEdit ==
    \/ HomeMount
    \/ HomeFetchEnd
    \/ HomeCallEnd
    \/ HomeEdit
    \/ HomeCancelEdit
    \/ HomeSubmit
    \/ HomeSeedTodo

SpecHomeEdit == InitTodoList /\ [][NextHomeEdit]_vars

\* the list page while the user deletes items
NextHomeDelete ==
    \/ HomeMount
    \/ HomeFetchEnd
    \/ HomeCallEnd
    \/ HomeDelete
    \/ HomeSeedTodo

SpecHomeDelete == InitTodoList /\ [][NextHomeDelete]_vars

\* the requests a step sends, and the requests whose response it takes
SentNow == home'.inflight \ home.inflight
TakenNow == home.inflight \ home'.inflight

\* C25: handleToggleStatus sends a body that holds only the other status,
\* and when the update succeeds the stored item has the opposite status and
\* every other field as before, so that two toggles restore the status.
C25_ToggleFlipsStatusOnly ==
    [][\A r \in SentNow : r.kind = "toggle" =>
          /\ r.body = <<[status |-> IF r.from[1].status = "complete"
                                    THEN "incomplete" ELSE "complete"]>>
          /\ r.response.success =>
                todos'[r.id] = [todos[r.id] EXCEPT
                    !.status = IF @ = "complete" THEN "incomplete" ELSE "complete"]
      ]_vars

\* C25 (amended): the body holds only status, the opposite of the status of
\* the todo as Home shows it; when the update succeeds the stored item has
\* that status, its updatedAt is the time of the update and its other
\* fields are as before; the stored status is flipped whenever the shown
\* status was the stored one, and flipping twice gives the first status.
C25_ToggleSetsOppositeOfShownStatus ==
    [][LET Opposite(s) == IF s = "complete" THEN "incomplete" ELSE "complete"
       IN  \A r \in SentNow : r.kind = "toggle" =>
              /\ r.body = <<[status |-> Opposite(r.from[1].status)]>>
              /\ r.response.success =>
                    /\ todos'[r.id] = [todos[r.id] EXCEPT
                           !.status = Opposite(r.from[1].status),
                           !.updatedAt = now]
                    /\ r.from[1].status = todos[r.id].status =>
                          /\ todos'[r.id].status = Opposite(todos[r.id].status)
                          /\ Opposite(todos'[r.id].status) = todos[r.id].status
      ]_vars

\* a toggle of an item shown as incomplete succeeded some time after the
\* item was created
C25_Witness ==
    \E r \in home.inflight :
        /\ r.kind = "toggle"
        /\ r.response.success
        /\ r.from[1].status = "incomplete"
        /\ todos[r.id].status = "complete"
        /\ todos[r.id].updatedAt > todos[r.id].createdAt

\* C29: editingTodo becomes null after an update that succeeded and after
\* Cancel, is unchanged after an update that failed or threw, and the form
\* submits to the update, of the edited item, exactly when editingTodo is
\* not null; no update is sent when it is null.
C29_EditingTodoFollowsUpdate ==
    [][ /\ \A r \in TakenNow :
              /\ (r.kind = "update" /\ r.response.success) =>
                    \E f \in SentNow : f.kind = "fetch" /\ f.then = "clearEditing"
              /\ (r.kind = "fetch" /\ r.then = "clearEditing") =>
                    home'.editingTodo = <<>>
              /\ (r.kind = "update" /\ ~r.response.success) =>
                    (home'.editingTodo = home.editingTodo /\ SentNow = {})
        /\ (home'.click # home.click /\ home'.click.what = "cancel") =>
              home'.editingTodo = <<>>
        /\ (home'.click # home.click /\ home'.click.what = "submit") =>
              IF home.editingTodo = <<>>
              THEN \E r \in SentNow : SentNow = {r} /\ r.kind = "create"
              ELSE \E r \in SentNow :
                      /\ SentNow = {r}
                      /\ r.kind = "update"
                      /\ r.id = home.editingTodo[1]._id
      ]_vars

\* the one item, created by another browser, was edited, the update
\* succeeded, the list was fetched again and the form left the edit mode
C29_Witness ==
    /\ home.click.what = "submit"
    /\ home.editingTodo = <<>>
    /\ home.inflight = {}
    /\ nextId = 2
    /\ Len(home.todos) = 1
    /\ home.todos[1].title = <<"b">>
    /\ home.todos[1].dueDate = 1

\* C30: a declined confirmation sends nothing and changes nothing in Home
\* or in the store; a confirmed one sends the DELETE, and the list is
\* fetched again exactly when the response to it has success true.
C30_DeleteOnlyWhenConfirmed ==
    [][ /\ (home'.click # home.click /\ home'.click.what = "delete") =>
              IF home'.click.confirmed
              THEN \E r \in SentNow :
                      SentNow = {r} /\ r.kind = "delete" /\ r.id = home'.click.id
              ELSE /\ home' = [home EXCEPT !.click = home'.click]
                   /\ todos' = todos
                   /\ nextId' = nextId
                   /\ req'.op = req.op
                   /\ resp' = resp
        /\ \A r \in TakenNow : r.kind = "delete" =>
              ((\E f \in SentNow : f.kind = "fetch") <=> r.response.success)
      ]_vars

\* the first of two items was deleted and the list fetched again; the
\* user then declined to delete the second
C30_Witness ==
    /\ home.click = [what |-> "delete", id |-> 2, confirmed |-> FALSE,
                     flip |-> FALSE]
    /\ DOMAIN todos = {2}
    /\ Len(home.todos) = 1
    /\ home.todos[1]._id = 2
    /\ home.inflight = {}

=============================================================================
